---- MODULE Spec2Model ----
(***************************************************************************)
(* gocreeper: the crawl orchestrator (crawler.go), the scope-bound         *)
(* fetcher (client.go) and the URL normalizer (parser.go).                 *)
(*                                                                         *)
(* A Go string is a sequence of one-character strings, so that parsing     *)
(* and formatting a URL are computed and not assumed.  Goroutines are      *)
(* tasks with a program counter; channels are sequences with a capacity    *)
(* and a closed flag; a Go panic ends the program.                         *)
(***************************************************************************)
EXTENDS Integers, Sequences, FiniteSets, TLC

\* ------------------------------------------------------------------ bounds

\* pool size (CrawlerConfig.Workers)
Workers == 2
\* depth ceiling (CrawlerConfig.MaxDepth)
MaxDepth == 1
\* capacity of the frontier channel (1000 in NewCrawler, scaled down)
QueueCap == 2
\* capacity of the results channel (1000 in NewCrawler, scaled down)
ResultsCap == 1
\* how many times the caller calls Stop() one after the other
MaxStops == 2

\* ----------------------------------------------------------------- strings

Letters == {"h", "x", "y", "a", "b"}

\* strings.Index(s, c) + 1 for a one-character c; 0 when absent
RECURSIVE IndexFrom(_, _, _)
IndexFrom(s, c, i) ==
    IF i > Len(s) THEN 0
    ELSE IF s[i] = c THEN i
    ELSE IndexFrom(s, c, i + 1)

Index(s, c) == IndexFrom(s, c, 1)

\* strings.LastIndex(s, c) + 1; 0 when absent
RECURSIVE LastIndexFrom(_, _, _)
LastIndexFrom(s, c, i) ==
    IF i < 1 THEN 0
    ELSE IF s[i] = c THEN i
    ELSE LastIndexFrom(s, c, i - 1)

LastIndex(s, c) == LastIndexFrom(s, c, Len(s))

HasPrefix(s, p) == Len(s) >= Len(p) /\ SubSeq(s, 1, Len(p)) = p

\* s[i:] of Go for a 0-based i
From(s, i) == SubSeq(s, i + 1, Len(s))

\* s[:i] of Go for a 0-based i
Upto(s, i) == SubSeq(s, 1, i)

\* -------------------------------------------------------------- net/url

NoURL ==
    [err |-> TRUE, Scheme |-> <<>>, Opaque |-> <<>>, Host |-> <<>>,
     Path |-> <<>>, Fragment |-> <<>>, OmitHost |-> FALSE]

\* the position of the first character that is not a letter; 0 when none
RECURSIVE FirstNonLetter(_, _)
FirstNonLetter(s, i) ==
    IF i > Len(s) THEN 0
    ELSE IF s[i] \in Letters THEN FirstNonLetter(s, i + 1)
    ELSE i

\* url.getScheme: (scheme, rest, err)
getScheme(rawURL) ==
    LET i == FirstNonLetter(rawURL, 1) IN
    IF i = 0 \/ rawURL[i] # ":"
    THEN [scheme |-> <<>>, rest |-> rawURL, err |-> FALSE]
    ELSE IF i = 1
    THEN [scheme |-> <<>>, rest |-> <<>>, err |-> TRUE]
    ELSE [scheme |-> Upto(rawURL, i - 1), rest |-> From(rawURL, i), err |-> FALSE]

\* url.parseHost / validOptionalPort: a port is ':' and digits only
validHost(host) ==
    LET i == LastIndex(host, ":") IN i = 0 \/ i = Len(host)

\* url.Parse(rawURL), without query, userinfo and escapes
Parse(rawURL) ==
    LET cut  == Index(rawURL, "#")
        u    == IF cut = 0 THEN rawURL ELSE Upto(rawURL, cut - 1)
        frag == IF cut = 0 THEN <<>> ELSE From(rawURL, cut)
        gs   == getScheme(u)
        rest == gs.rest
        sl   == Index(rest, "/")
        segment == IF sl = 0 THEN rest ELSE Upto(rest, sl - 1)
        hasAuth == /\ HasPrefix(rest, <<"/", "/">>)
                   /\ (gs.scheme # <<>> \/ ~HasPrefix(rest, <<"/", "/", "/">>))
        auth0 == From(rest, 2)
        asl   == Index(auth0, "/")
        authority == IF asl = 0 THEN auth0 ELSE Upto(auth0, asl - 1)
        path  == IF asl = 0 THEN <<>> ELSE From(auth0, asl - 1)
    IN
    IF gs.err THEN NoURL
    ELSE IF ~HasPrefix(rest, <<"/">>) /\ gs.scheme # <<>>
    THEN [NoURL EXCEPT !.err = FALSE, !.Scheme = gs.scheme, !.Opaque = rest,
                       !.Fragment = frag]
    ELSE IF ~HasPrefix(rest, <<"/">>) /\ Index(segment, ":") # 0
    THEN NoURL
    ELSE IF hasAuth
    THEN IF ~validHost(authority) THEN NoURL
         ELSE [NoURL EXCEPT !.err = FALSE, !.Scheme = gs.scheme,
                            !.Host = authority, !.Path = path, !.Fragment = frag]
    ELSE [NoURL EXCEPT !.err = FALSE, !.Scheme = gs.scheme, !.Path = rest,
                       !.Fragment = frag,
                       !.OmitHost = (gs.scheme # <<>> /\ HasPrefix(rest, <<"/">>))]

\* (*URL).Hostname: the host without its port
Hostname(u) ==
    LET i == Index(u.Host, ":") IN
    IF i = 0 THEN u.Host ELSE Upto(u.Host, i - 1)

\* (*URL).IsAbs
IsAbs(u) == u.Scheme # <<>>

\* (*URL).String
String(u) ==
    LET scheme == IF u.Scheme # <<>> THEN u.Scheme \o <<":">> ELSE <<>>
        slashes ==
            IF (u.Scheme # <<>> \/ u.Host # <<>>)
               /\ ~(u.OmitHost /\ u.Host = <<>>)
               /\ (u.Host # <<>> \/ u.Path # <<>>)
            THEN <<"/", "/">> \o u.Host
            ELSE <<>>
        sep == IF u.Path # <<>> /\ u.Path[1] # "/" /\ u.Host # <<>>
               THEN <<"/">> ELSE <<>>
        seg == LET sl == Index(u.Path, "/") IN
               IF sl = 0 THEN u.Path ELSE Upto(u.Path, sl - 1)
        dot == IF scheme = <<>> /\ slashes = <<>> /\ sep = <<>>
                  /\ Index(seg, ":") # 0
               THEN <<".", "/">> ELSE <<>>
        body == IF u.Opaque # <<>> THEN u.Opaque
                ELSE slashes \o sep \o dot \o u.Path
        frag == IF u.Fragment # <<>> THEN <<"#">> \o u.Fragment ELSE <<>>
    IN scheme \o body \o frag

\* url.resolvePath for paths without "." and ".." segments
resolvePath(base, ref) ==
    LET full == IF ref = <<>> THEN base
                ELSE IF ref[1] # "/" THEN Upto(base, LastIndex(base, "/")) \o ref
                ELSE ref
        r == <<"/">> \o full
    IN IF full = <<>> THEN <<>>
       ELSE IF Len(r) > 1 /\ r[2] = "/" THEN Tail(r)
       ELSE r

\* (*URL).ResolveReference
ResolveReference(u, ref) ==
    LET url == [ref EXCEPT !.Scheme = IF ref.Scheme = <<>> THEN u.Scheme ELSE @] IN
    IF ref.Scheme # <<>> \/ ref.Host # <<>>
    THEN [url EXCEPT !.Path = resolvePath(ref.Path, <<>>)]
    ELSE IF ref.Opaque # <<>>
    THEN [url EXCEPT !.Host = <<>>, !.Path = <<>>]
    ELSE LET url2 == IF ref.Path = <<>> /\ ref.Fragment = <<>>
                     THEN [url EXCEPT !.Fragment = u.Fragment]
                     ELSE url
         IN IF ref.Path = <<>> /\ u.Opaque # <<>>
            THEN [url2 EXCEPT !.Opaque = u.Opaque, !.Host = <<>>, !.Path = <<>>]
            ELSE [url2 EXCEPT !.Host = u.Host,
                              !.Path = resolvePath(u.Path, ref.Path)]

\* ------------------------------------------------------------ the crawl

\* CrawlerConfig.URL, parsed by NewClient and NewParser
BaseStr == <<"h", ":", "/", "/", "x", "/">>

baseURL == Parse(BaseStr)

\* mutant: the fragment is left in place
normalizeURL_KeepsFragment(urlStr) ==
    IF urlStr = <<>> THEN <<>>
    ELSE LET s == IF HasPrefix(urlStr, <<"/", "/">>)
                  THEN baseURL.Scheme \o <<":">> \o urlStr
                  ELSE urlStr
             parsedURL == Parse(s)
             resolved == IF ~IsAbs(parsedURL)
                         THEN ResolveReference(baseURL, parsedURL)
                         ELSE parsedURL
         IN IF parsedURL.err THEN <<>>
            ELSE String(resolved)

\* Parser.normalizeURL
normalizeURL(urlStr) ==
    IF urlStr = <<>> THEN <<>>
    ELSE LET s == IF HasPrefix(urlStr, <<"/", "/">>)
                  THEN baseURL.Scheme \o <<":">> \o urlStr
                  ELSE urlStr
             parsedURL == Parse(s)
             resolved == IF ~IsAbs(parsedURL)
                         THEN ResolveReference(baseURL, parsedURL)
                         ELSE parsedURL
         IN IF parsedURL.err THEN <<>>
            ELSE String([resolved EXCEPT !.Fragment = <<>>])

\* Parser.ExtractURLs / ExtractCSSURLs / ExtractJSURLs over the attribute
\* values (or pattern matches) of a body, in document order; an empty
\* attribute value is not collected
RECURSIVE ExtractURLs(_)
ExtractURLs(refs) ==
    IF refs = <<>> THEN <<>>
    ELSE IF Head(refs) = <<>> THEN ExtractURLs(Tail(refs))
    ELSE <<normalizeURL(Head(refs))>> \o ExtractURLs(Tail(refs))

\* mutant: any URL that parses is in scope
IsInScope_AnyHost(urlStr) == ~Parse(urlStr).err

\* Client.IsInScope
IsInScope(urlStr) ==
    LET parsedURL == Parse(urlStr) IN
    IF parsedURL.err THEN FALSE
    ELSE Hostname(parsedURL) = Hostname(baseURL)

\* getContentType
getContentType(contentType) ==
    CASE contentType = "text/html" -> "html"
      [] contentType = "text/css" -> "css"
      [] contentType = "application/javascript" -> "javascript"
      [] contentType = "image/png" -> "image"
      [] OTHER -> "other"

PageA == <<"h", ":", "/", "/", "x", "/", "a">>
PageB == <<"h", ":", "/", "/", "x", "/", "b">>

NotFound == [status |-> 404, ctype |-> "text/plain", refs |-> <<>>]

\* site 1: a link into the site, a link to another host, a link to the
\* page itself; /a is served as plain text
Site1(urlStr) ==
    CASE urlStr = BaseStr ->
            [status |-> 200, ctype |-> "text/html",
             refs |-> << <<"/", "a">>,
                         <<"/", "/", "y", "/", "a">>,
                         <<"h", ":", "/", "/", "x", "/", "#", "a">> >>]
      [] urlStr = PageA ->
            [status |-> 200, ctype |-> "text/plain", refs |-> << <<"b">> >>]
      [] OTHER -> NotFound

\* site 2: a chain seed -> /a -> /b, /a a stylesheet that names itself,
\* /b an error page with a link
Site2(urlStr) ==
    CASE urlStr = BaseStr ->
            [status |-> 200, ctype |-> "text/html", refs |-> << <<"/", "a">> >>]
      [] urlStr = PageA ->
            [status |-> 200, ctype |-> "text/css", refs |-> << <<"b">>, <<"a">> >>]
      [] urlStr = PageB ->
            [status |-> 404, ctype |-> "text/html", refs |-> << <<"/", "a">> >>]
      [] OTHER -> NotFound

\* site 3: a link that does not parse, the same link twice, and a script
\* that requests the seed
Site3(urlStr) ==
    CASE urlStr = BaseStr ->
            [status |-> 200, ctype |-> "text/html",
             refs |-> << <<":">>, <<"/", "a">>, <<"a">> >>]
      [] urlStr = PageA ->
            [status |-> 200, ctype |-> "application/javascript",
             refs |-> << <<"/">> >>]
      [] OTHER -> NotFound

SiteIds == {1, 2, 3}

\* panic messages of the Go runtime
NoPanic == "none"
PanicSendResults == "send on closed channel: results"
PanicSendQueue == "send on closed channel: queue"
PanicClose == "close of closed channel"

VARIABLES
    site,           \* which site the server serves
    started,        \* Start() has run
    cancelled,      \* c.ctx is done (deadline expired or cancelFunc called)
    stopClosed,     \* c.stopChan is closed
    queue,          \* c.queue, the frontier
    queueClosed,    \* c.queue is closed
    results,        \* c.results, the buffered output stream
    resultsClosed,  \* c.results is closed
    visited,        \* c.visited
    wg,             \* c.wg
    tasks,          \* the goroutines running worker() or processURL()
    stopPc,         \* where the caller of Stop() is
    stopCalls,      \* how many times Stop() has been called
    panicked,       \* the panic that ended the program, if any
    admitted,       \* history: how often each URL passed the visited-set gate
    fetched,        \* history: how many requests were issued for each URL
    sent,           \* history: the CrawlResults sent on c.results, in order
    abandoned,      \* history: the URLs given up, with depth and reason
    prior,          \* the (URL, depth) pairs an earlier run on the site emitted
    chain,          \* Client.Do: how many redirects the server answers with
    reqs,           \* Client.Do: len(reqs), the requests sent so far
    resp,           \* Client.Do: the number of the last response received
    retres,         \* Client.Do: the number of the response returned
    raw,            \* the string handed to normalizeURL
    normalized      \* the results of normalizeURL applied over and over

vars == <<site, started, cancelled, stopClosed, queue, queueClosed, results,
          resultsClosed, visited, wg, tasks, stopPc, stopCalls, panicked,
          admitted, fetched, sent, abandoned, prior, chain, reqs, resp, retres,
          raw, normalized>>

\* the state of the calls that are made outside a crawl
call == <<chain, reqs, resp, retres, raw, normalized>>
aux == <<prior, call>>

chans == <<queue, queueClosed, results, resultsClosed>>
hist == <<admitted, fetched, sent, abandoned>>
stop == <<stopPc, stopCalls, stopClosed>>

Alive == panicked = NoPanic

\* the response of the server to a GET of urlStr: status, Content-Type and
\* the URL references of the body
SiteAt(s, urlStr) ==
    CASE s = 1 -> Site1(urlStr)
      [] s = 2 -> Site2(urlStr)
      [] OTHER -> Site3(urlStr)

Site(urlStr) == SiteAt(site, urlStr)

\* a history that counts per URL: a function from the URLs counted so far
Count(h, urlStr) == IF urlStr \in DOMAIN h THEN h[urlStr] ELSE 0

Counted(h, urlStr) ==
    [u \in DOMAIN h \cup {urlStr} |-> IF u = urlStr THEN Count(h, u) + 1 ELSE h[u]]

Idle == [pool |-> TRUE, pc |-> "select", url |-> <<>>, depth |-> 0, todo |-> <<>>]

\* NewCrawler: the state after construction
NewCrawler ==
    /\ started = FALSE
    /\ cancelled = FALSE
    /\ stopClosed = FALSE
    /\ queue = <<>>
    /\ queueClosed = FALSE
    /\ results = <<>>
    /\ resultsClosed = FALSE
    /\ visited = {}
    /\ wg = 0
    /\ tasks = <<>>
    /\ stopPc = "idle"
    /\ stopCalls = 0
    /\ panicked = NoPanic
    /\ admitted = <<>>
    /\ fetched = <<>>
    /\ sent = <<>>
    /\ abandoned = {}

\* no run before this one
NoPrior == [ran |-> FALSE, emitted |-> {}, overflowed |-> FALSE]

\* no call of Client.Do or normalizeURL outside the crawl
NoCall ==
    /\ chain = 0
    /\ reqs = 0
    /\ resp = 0
    /\ retres = 0
    /\ raw = <<>>
    /\ normalized = <<>>

Init ==
    /\ site \in SiteIds
    /\ NewCrawler
    /\ prior = NoPrior
    /\ NoCall

\* Crawler.Start: the pool, the seed in the frontier, the closing goroutine
Start ==
    /\ Alive /\ ~started
    /\ started' = TRUE
    /\ UNCHANGED <<aux, site>>
    /\ wg' = Workers
    /\ tasks' = [i \in 1..Workers |-> Idle]
    /\ queue' = Append(queue, String(baseURL))
    /\ UNCHANGED <<cancelled, queueClosed, results, resultsClosed, visited,
                   stop, panicked, hist>>

\* the goroutine of Start: c.wg.Wait(); close(c.results)
Closer ==
    /\ Alive /\ started /\ wg = 0 /\ ~resultsClosed
    /\ resultsClosed' = TRUE
    /\ UNCHANGED <<aux, site, started, cancelled, queue, queueClosed, results, visited, wg,
                   tasks, stop, panicked, hist>>

\* the deadline of context.WithTimeout expires
Deadline ==
    /\ Alive /\ ~cancelled
    /\ cancelled' = TRUE
    /\ UNCHANGED <<aux, site, started, chans, visited, wg, tasks, stop, panicked, hist>>

\* the consumer of the stream receives one CrawlResult
Drain ==
    /\ Alive /\ results # <<>>
    /\ results' = Tail(results)
    /\ UNCHANGED <<aux, site, started, cancelled, queue, queueClosed, resultsClosed,
                   visited, wg, tasks, stop, panicked, hist>>

\* ------------------------------------------------------------ Crawler.Stop

\* Stop(): c.cancelFunc()
StopCancel ==
    /\ Alive /\ started /\ stopPc \in {"idle", "returned"} /\ stopCalls < MaxStops
    /\ cancelled' = TRUE
    /\ stopPc' = "closeStop"
    /\ stopCalls' = stopCalls + 1
    /\ UNCHANGED <<aux, site, started, stopClosed, chans, visited, wg, tasks, panicked, hist>>

\* Stop(): close(c.stopChan)
StopCloseStopChan ==
    /\ Alive /\ stopPc = "closeStop"
    /\ IF stopClosed
       THEN panicked' = PanicClose /\ UNCHANGED <<stopClosed, stopPc>>
       ELSE stopClosed' = TRUE /\ stopPc' = "closeQueue" /\ UNCHANGED panicked
    /\ UNCHANGED <<aux, site, started, cancelled, chans, visited, wg, tasks, stopCalls, hist>>

\* Stop(): close(c.queue)
StopCloseQueue ==
    /\ Alive /\ stopPc = "closeQueue"
    /\ IF queueClosed
       THEN panicked' = PanicClose /\ UNCHANGED <<queueClosed, stopPc>>
       ELSE queueClosed' = TRUE /\ stopPc' = "wait" /\ UNCHANGED panicked
    /\ UNCHANGED <<aux, site, started, cancelled, stopClosed, queue, results, resultsClosed,
                   visited, wg, tasks, stopCalls, hist>>

\* Stop(): c.wg.Wait(), then the return
StopWait ==
    /\ Alive /\ stopPc = "wait" /\ wg = 0
    /\ stopPc' = "returned"
    /\ UNCHANGED <<aux, site, started, cancelled, stopClosed, chans, visited, wg, tasks,
                   stopCalls, panicked, hist>>

\* ---------------------------------------------------------- Crawler.worker

IsWorker(i) == i \in 1..Len(tasks) /\ tasks[i].pool /\ tasks[i].pc = "select"

\* worker(): return, with the deferred c.wg.Done()
WorkerExit(i) ==
    /\ tasks' = [tasks EXCEPT ![i] = [Idle EXCEPT !.pc = "exited"]]
    /\ wg' = wg - 1
    /\ UNCHANGED <<aux, site, started, cancelled, chans, visited, stop, panicked, hist>>

\* case <-c.ctx.Done()
WorkerCtxDone(i) == Alive /\ IsWorker(i) /\ cancelled /\ WorkerExit(i)

\* case <-c.stopChan
WorkerStopChan(i) == Alive /\ IsWorker(i) /\ stopClosed /\ WorkerExit(i)

\* case urlStr, ok := <-c.queue with !ok
WorkerQueueClosed(i) ==
    Alive /\ IsWorker(i) /\ queueClosed /\ queue = <<>> /\ WorkerExit(i)

\* case urlStr, ok := <-c.queue with ok: c.processURL(urlStr, 0)
WorkerRecv(i) ==
    /\ Alive /\ IsWorker(i) /\ queue # <<>>
    /\ queue' = Tail(queue)
    /\ tasks' = [tasks EXCEPT ![i] = [Idle EXCEPT !.pc = "visit", !.url = Head(queue),
                                                  !.depth = 0]]
    /\ UNCHANGED <<aux, site, started, cancelled, queueClosed, results, resultsClosed,
                   visited, wg, stop, panicked, hist>>

\* ------------------------------------------------------ Crawler.processURL

At(i, pc) == i \in 1..Len(tasks) /\ tasks[i].pc = pc

\* the slot of a spawned goroutine that has ended
Done == [Idle EXCEPT !.pool = FALSE, !.pc = "done"]

\* ended goroutines at the end of the list are forgotten
RECURSIVE Trim(_)
Trim(ts) ==
    IF ts # <<>> /\ ts[Len(ts)] = Done THEN Trim(SubSeq(ts, 1, Len(ts) - 1))
    ELSE ts

\* processURL returns: a pool worker is back at its select, a spawned
\* goroutine ends
Returned(i) ==
    IF tasks[i].pool THEN [tasks EXCEPT ![i] = Idle]
    ELSE Trim([tasks EXCEPT ![i] = Done])

\* go c.processURL(urlStr, depth): the new goroutine takes the first free slot
Go(ts, urlStr, depth) ==
    LET t == [pool |-> FALSE, pc |-> "visit", url |-> urlStr, depth |-> depth,
              todo |-> <<>>]
        free == {j \in 1..Len(ts) : ts[j] = Done}
    IN IF free = {} THEN Append(ts, t)
       ELSE [ts EXCEPT ![CHOOSE j \in free : \A k \in free : j <= k] = t]

\* the loop over the discovered URLs goes on with todo, or processURL returns
Continue(i, todo) ==
    IF todo = <<>> THEN Returned(i)
    ELSE [tasks EXCEPT ![i].pc = "offer", ![i].todo = todo]

Abandon(t, why) == [url |-> t.url, depth |-> t.depth, why |-> why]

\* mutant: the gate never reports a URL as visited
LoadOrStore_NeverLoaded(urlStr) == FALSE

\* c.visited.LoadOrStore(urlStr, true): whether the key was already there
LoadOrStore(urlStr) == urlStr \in visited

\* mutant: the depth limit is never applied
OverDepth_Never(depth) == FALSE

\* the depth limit of processURL
OverDepth(depth) == depth > MaxDepth

\* the visited-set gate, then the depth and the scope checks
Visit(i) ==
    /\ Alive /\ At(i, "visit")
    /\ LET t == tasks[i]
           seen == LoadOrStore(t.url)
           why == IF seen THEN "visited"
                  ELSE IF OverDepth(t.depth) THEN "depth"
                  ELSE IF ~IsInScope(t.url) THEN "scope"
                  ELSE "none"
       IN /\ visited' = visited \cup {t.url}
          /\ admitted' = IF seen THEN admitted ELSE Counted(admitted, t.url)
          /\ IF why = "none"
             THEN /\ tasks' = [tasks EXCEPT ![i].pc = "get"]
                  /\ UNCHANGED abandoned
             ELSE /\ tasks' = Returned(i)
                  /\ abandoned' = abandoned \cup {Abandon(t, why)}
    /\ UNCHANGED <<aux, site, started, cancelled, chans, wg, stop, panicked, fetched, sent>>

\* mutant: the fetch is tried again after an error
FetchFailed_Retry(i) ==
    /\ tasks' = [tasks EXCEPT ![i].pc = "get"]
    /\ abandoned' = abandoned \cup {Abandon(tasks[i], "fetch")}
    /\ UNCHANGED <<sent, visited>>

\* what processURL does when Client.Get returns an error
FetchFailed(i) ==
    /\ tasks' = Returned(i)
    /\ abandoned' = abandoned \cup {Abandon(tasks[i], "fetch")}
    /\ UNCHANGED <<sent, visited>>

\* Client.Get: the rate limiter's Wait returns an error (the context is
\* done, or the wait would exceed its deadline), or url.Parse fails, or the
\* transport finds the context done: no request is issued
GetNoRequest(i) ==
    /\ Alive /\ At(i, "get")
    /\ FetchFailed(i)
    /\ UNCHANGED <<aux, site, started, cancelled, chans, wg, stop, panicked, admitted, fetched>>

\* Client.Get: the request is issued and httpClient.Do returns an error
GetTransportErr(i) ==
    /\ Alive /\ At(i, "get") /\ ~cancelled /\ ~Parse(tasks[i].url).err
    /\ fetched' = Counted(fetched, tasks[i].url)
    /\ FetchFailed(i)
    /\ UNCHANGED <<aux, site, started, cancelled, chans, wg, stop, panicked, admitted>>

\* mutant: the request is issued whatever the state of the context
GetOK_IgnoresCtx(i) ==
    /\ Alive /\ At(i, "get") /\ ~Parse(tasks[i].url).err
    /\ fetched' = Counted(fetched, tasks[i].url)
    /\ tasks' = [tasks EXCEPT ![i].pc = "emit"]
    /\ UNCHANGED <<aux, site, started, cancelled, chans, visited, wg, stop, panicked,
                   admitted, sent, abandoned>>

\* Client.Get: the request is issued and a response comes back
GetOK(i) ==
    /\ Alive /\ At(i, "get") /\ ~cancelled /\ ~Parse(tasks[i].url).err
    /\ fetched' = Counted(fetched, tasks[i].url)
    /\ tasks' = [tasks EXCEPT ![i].pc = "emit"]
    /\ UNCHANGED <<aux, site, started, cancelled, chans, visited, wg, stop, panicked,
                   admitted, sent, abandoned>>

\* the CrawlResult of a response
Result(t) ==
    [URL |-> t.url, Depth |-> t.depth, Status |-> Site(t.url).status,
     Type |-> getContentType(Site(t.url).ctype)]

\* mutant: the status of the response is not looked at
Discovered_AnyStatus(urlStr) ==
    LET page == Site(urlStr) IN
    IF getContentType(page.ctype) \in {"html", "css", "javascript"}
    THEN ExtractURLs(page.refs)
    ELSE <<>>

\* the URLs processURL goes on to offer: status 200 and html, css or
\* javascript
Discovered(urlStr) ==
    LET page == Site(urlStr) IN
    IF page.status = 200
       /\ getContentType(page.ctype) \in {"html", "css", "javascript"}
    THEN ExtractURLs(page.refs)
    ELSE <<>>

\* c.results <- CrawlResult{...} on the closed stream
EmitPanic(i) ==
    /\ Alive /\ At(i, "emit") /\ resultsClosed
    /\ panicked' = PanicSendResults
    /\ UNCHANGED <<aux, site, started, cancelled, chans, visited, wg, tasks, stop, hist>>

\* mutant: the links are offered and the CrawlResult is not sent first
Emit_OffersBeforeResult(i) ==
    /\ Alive /\ At(i, "emit") /\ ~resultsClosed /\ Len(results) < ResultsCap
    /\ IF Discovered(tasks[i].url) # <<>>
       THEN /\ tasks' = Continue(i, Discovered(tasks[i].url))
            /\ UNCHANGED <<results, sent>>
       ELSE /\ results' = Append(results, Result(tasks[i]))
            /\ sent' = Append(sent, Result(tasks[i]))
            /\ tasks' = Returned(i)
    /\ UNCHANGED <<aux, site, started, cancelled, queue, queueClosed, resultsClosed, visited,
                   wg, stop, panicked, admitted, fetched, abandoned>>

\* c.results <- CrawlResult{...}, then io.ReadAll and the extraction
Emit(i) ==
    /\ Alive /\ At(i, "emit") /\ ~resultsClosed /\ Len(results) < ResultsCap
    /\ results' = Append(results, Result(tasks[i]))
    /\ sent' = Append(sent, Result(tasks[i]))
    /\ \/ tasks' = Continue(i, Discovered(tasks[i].url))
       \/ /\ Site(tasks[i].url).status = 200       \* io.ReadAll fails
          /\ tasks' = Returned(i)
    /\ UNCHANGED <<aux, site, started, cancelled, queue, queueClosed, resultsClosed, visited,
                   wg, stop, panicked, admitted, fetched, abandoned>>

\* select: case c.queue <- newURL, then go c.processURL(newURL, depth+1)
OfferSend(i) ==
    /\ Alive /\ At(i, "offer") /\ ~queueClosed /\ Len(queue) < QueueCap
    /\ LET t == tasks[i] IN
       /\ queue' = Append(queue, Head(t.todo))
       /\ tasks' = Go(Continue(i, Tail(t.todo)), Head(t.todo), t.depth + 1)
    /\ UNCHANGED <<aux, site, started, cancelled, queueClosed, results, resultsClosed,
                   visited, wg, stop, panicked, hist>>

\* select: case c.queue <- newURL on the closed frontier
OfferPanic(i) ==
    /\ Alive /\ At(i, "offer") /\ queueClosed
    /\ panicked' = PanicSendQueue
    /\ UNCHANGED <<aux, site, started, cancelled, chans, visited, wg, tasks, stop, hist>>

\* select: case <-c.ctx.Done(): return
OfferCtxDone(i) ==
    /\ Alive /\ At(i, "offer") /\ cancelled
    /\ tasks' = Returned(i)
    /\ UNCHANGED <<aux, site, started, cancelled, chans, visited, wg, stop, panicked, hist>>

\* mutant: the goroutine is started although the frontier was full
OfferDrop_StillSpawns(i) ==
    /\ Alive /\ At(i, "offer") /\ ~queueClosed /\ Len(queue) >= QueueCap /\ ~cancelled
    /\ LET t == tasks[i] IN
       /\ tasks' = Go(Continue(i, Tail(t.todo)), Head(t.todo), t.depth + 1)
       /\ abandoned' = abandoned \cup
              {[url |-> Head(t.todo), depth |-> t.depth + 1, why |-> "full"]}
    /\ UNCHANGED <<aux, site, started, cancelled, chans, visited, wg, stop, panicked,
                   admitted, fetched, sent>>

\* select: default, the frontier is full and the URL is skipped
OfferDrop(i) ==
    /\ Alive /\ At(i, "offer") /\ ~queueClosed /\ Len(queue) >= QueueCap /\ ~cancelled
    /\ LET t == tasks[i] IN
       /\ tasks' = Continue(i, Tail(t.todo))
       /\ abandoned' = abandoned \cup
              {[url |-> Head(t.todo), depth |-> t.depth + 1, why |-> "full"]}
    /\ UNCHANGED <<aux, site, started, cancelled, chans, visited, wg, stop, panicked,
                   admitted, fetched, sent>>

\* ------------------------------------------------------------------- spec

\* every goroutine the run can hold: the pool and one per link of a site
MaxTasks == Workers + 4

TaskIds == 1..MaxTasks

WorkerStep(i) ==
    \/ WorkerCtxDone(i)
    \/ WorkerStopChan(i)
    \/ WorkerQueueClosed(i)
    \/ WorkerRecv(i)

ProcessStep(i) ==
    \/ Visit(i)
    \/ GetNoRequest(i)
    \/ GetTransportErr(i)
    \/ GetOK(i)
    \/ EmitPanic(i)
    \/ Emit(i)
    \/ OfferSend(i)
    \/ OfferPanic(i)
    \/ OfferCtxDone(i)
    \/ OfferDrop(i)

StopStep == StopCloseStopChan \/ StopCloseQueue \/ StopWait

Next ==
    \/ Start
    \/ Closer
    \/ Deadline
    \/ Drain
    \/ StopCancel
    \/ StopCloseStopChan
    \/ StopCloseQueue
    \/ StopWait
    \/ \E i \in TaskIds : WorkerStep(i)
    \/ \E i \in TaskIds : ProcessStep(i)

Spec == Init /\ [][Next]_vars

\* the steps of the program's own goroutines and of its consumer; the
\* expiry of the deadline and the caller's decision to call Stop() are the
\* environment's
Prog ==
    \/ Start
    \/ Closer
    \/ Drain
    \/ StopStep
    \/ \E i \in TaskIds : WorkerStep(i)
    \/ \E i \in TaskIds : ProcessStep(i)

\* The Go scheduler runs every goroutine that can run.  Every step of the
\* program consumes something that is never given back (a pending URL, a
\* stage of processURL, a buffered result, a stage of Stop), so a run is
\* finite and fairness only has to say that it does not stop while some
\* goroutine can take a step.
LiveSpec == Spec /\ WF_vars(Prog)

\* ------------------------------------------------- redirects (Client.Do)

\* CrawlerConfig.MaxRedirects as main sets it
MaxRedirects == 10

\* the longest chain of redirects a server answers with
MaxChain == 14

\* the variables of a crawl
crawl == <<site, started, cancelled, chans, visited, wg, tasks, stop, panicked, hist>>

\* the CheckRedirect of NewClient, called with len(via): whether it returns
\* http.ErrUseLastResponse
CheckRedirect(via) == via >= MaxRedirects

\* the server answers the first `chain` requests with a redirect to the
\* next hop and the one after them with the page
IsRedirect(n) == n <= chain

\* a call of httpClient.Do against a server with a chain of redirects
DoInit ==
    /\ site = 1
    /\ NewCrawler
    /\ prior = NoPrior
    /\ chain \in 0..MaxChain
    /\ reqs = 0
    /\ resp = 0
    /\ retres = 0
    /\ raw = <<>>
    /\ normalized = <<>>

\* http.Client.do, one turn of its loop: for every request but the first
\* the hop is submitted to CheckRedirect with the requests sent so far;
\* then reqs = append(reqs, req) and resp = c.send(req)
DoSend ==
    /\ retres = 0
    /\ reqs = 0 \/ (IsRedirect(resp) /\ ~CheckRedirect(reqs))
    /\ reqs' = reqs + 1
    /\ resp' = reqs + 1
    /\ UNCHANGED <<crawl, prior, chain, retres, raw, normalized>>

\* http.Client.do: CheckRedirect returned ErrUseLastResponse, return resp, nil
DoUseLastResponse ==
    /\ retres = 0 /\ reqs > 0
    /\ IsRedirect(resp) /\ CheckRedirect(reqs)
    /\ retres' = resp
    /\ UNCHANGED <<crawl, prior, chain, reqs, resp, raw, normalized>>

\* http.Client.do: the response is no redirect, return resp, nil
DoReturn ==
    /\ retres = 0 /\ reqs > 0
    /\ ~IsRedirect(resp)
    /\ retres' = resp
    /\ UNCHANGED <<crawl, prior, chain, reqs, resp, raw, normalized>>

DoNext == DoSend \/ DoUseLastResponse \/ DoReturn

DoSpec == DoInit /\ [][DoNext]_vars

\* ------------------------------------------- normalization (normalizeURL)

\* the longest string handed to normalizeURL
MaxLen == 4

\* the characters of the strings: letters and the delimiters of a URL
Chars == Letters \cup {":", "/", "#"}

\* the attribute values and pattern matches the extractors hand on: never
\* the empty string
Raws == UNION {[1..n -> Chars] : n \in 1..MaxLen}

NormInit ==
    /\ site = 1
    /\ NewCrawler
    /\ prior = NoPrior
    /\ chain = 0
    /\ reqs = 0
    /\ resp = 0
    /\ retres = 0
    /\ raw \in Raws
    /\ normalized = <<>>

\* p.normalizeURL(raw)
NormFirst ==
    /\ normalized = <<>>
    /\ normalized' = <<normalizeURL(raw)>>
    /\ UNCHANGED <<crawl, prior, chain, reqs, resp, retres, raw>>

\* p.normalizeURL of the result: the URL is found again on a page
NormAgain ==
    /\ Len(normalized) = 1
    /\ normalized' = Append(normalized, normalizeURL(normalized[1]))
    /\ UNCHANGED <<crawl, prior, chain, reqs, resp, retres, raw>>

NormNext == NormFirst \/ NormAgain

NormSpec == NormInit /\ [][NormNext]_vars

\* ----------------------------------------- two runs on the same site

\* what a run has emitted: the (URL, depth) pairs of its CrawlResults
Outcome == {<<sent[k].URL, sent[k].Depth>> : k \in 1..Len(sent)}

\* a URL was skipped at the full frontier
Overflowed == \E a \in abandoned : a.why = "full"

\* c.results <- CrawlResult{...}, io.ReadAll without an error, the extraction
EmitRead(i) ==
    /\ Emit(i)
    /\ tasks' = Continue(i, Discovered(tasks[i].url))

\* a run in which the deadline does not expire, Stop() is not called and
\* no fetch returns an error
RunStep ==
    \/ Start
    \/ Drain
    \/ \E i \in TaskIds : WorkerRecv(i)
    \/ \E i \in TaskIds : Visit(i)
    \/ \E i \in TaskIds : GetOK(i)
    \/ \E i \in TaskIds : EmitRead(i)
    \/ \E i \in TaskIds : OfferSend(i)
    \/ \E i \in TaskIds : OfferDrop(i)

\* the run has come to rest: the frontier and the stream are empty, the
\* pool workers wait at their select and no other goroutine is left
AtRest ==
    /\ started
    /\ queue = <<>>
    /\ results = <<>>
    /\ \A i \in 1..Len(tasks) : tasks[i].pc \in {"select", "done"}

\* the run has come to rest; the program is run again on the same site
\* with the same configuration
RunAgain ==
    /\ AtRest /\ ~prior.ran
    /\ prior' = [ran |-> TRUE, emitted |-> Outcome, overflowed |-> Overflowed]
    /\ started' = FALSE
    /\ cancelled' = FALSE
    /\ stopClosed' = FALSE
    /\ queue' = <<>>
    /\ queueClosed' = FALSE
    /\ results' = <<>>
    /\ resultsClosed' = FALSE
    /\ visited' = {}
    /\ wg' = 0
    /\ tasks' = <<>>
    /\ stopPc' = "idle"
    /\ stopCalls' = 0
    /\ panicked' = NoPanic
    /\ admitted' = <<>>
    /\ fetched' = <<>>
    /\ sent' = <<>>
    /\ abandoned' = {}
    /\ UNCHANGED <<site, call>>

TwoRunsNext == RunStep \/ RunAgain

TwoRunsSpec == Init /\ [][TwoRunsNext]_vars

\* ----------------------------------------------------------------- claims

\* how many CrawlResults with this URL were sent on the stream
ResultsFor(urlStr) == Cardinality({k \in 1..Len(sent) : sent[k].URL = urlStr})

SentURLs == {sent[k].URL : k \in 1..Len(sent)}

\* a goroutine that is inside processURL
Processing(i) == i \in 1..Len(tasks) /\ tasks[i].pc \in {"visit", "get", "emit", "offer"}

\* URLs queued in the frontier plus URLs being processed
Outstanding == Len(queue) + Cardinality({i \in 1..Len(tasks) : Processing(i)})

\* C1: every URL passes the visited-set gate at most once, at most one
\* request is issued for it and at most one CrawlResult carries it.
C1_AtMostOnce ==
    \A u \in visited \cup DOMAIN fetched \cup SentURLs :
        /\ Count(admitted, u) <= 1
        /\ Count(fetched, u) <= 1
        /\ ResultsFor(u) <= 1

\* a URL with its one result, and another presentation of it (from the
\* frontier or from a spawned goroutine) absorbed by the gate
C1_Witness ==
    \E a \in abandoned :
        /\ a.why = "visited"
        /\ ResultsFor(a.url) = 1
        /\ Count(fetched, a.url) = 1
        /\ Count(admitted, a.url) = 1

\* C2: no CrawlResult is sent on the output stream after it was closed.
C2_NoSendOnClosedStream == panicked # PanicSendResults

\* C3: once nothing is queued and nothing is being processed, the run goes
\* on by itself until the stream is closed: with the deadline not expired
\* and Stop() not called, the program does not come to rest (no goroutine
\* and no consumer can take a step) before the pool workers have exited and
\* the stream is closed.
C3_CompletesWhenDrained ==
    (started /\ ~cancelled /\ Outstanding = 0 /\ ~ENABLED Prog)
        => (wg = 0 /\ resultsClosed)

\* C4: when Stop() has returned, no goroutine is inside processURL and no
\* pool worker is still running.
C4_StopReturnsAfterUnwind ==
    stopPc = "returned" => \A i \in 1..Len(tasks) : tasks[i].pc \in {"exited", "done"}

\* C5: every CrawlResult sent has depth <= maxDepth.
C5_DepthBounded == \A k \in 1..Len(sent) : sent[k].Depth <= MaxDepth

\* a URL was given up for its depth, and a result at the ceiling was sent
C5_Witness ==
    /\ \E a \in abandoned : a.why = "depth" /\ a.depth = MaxDepth + 1
    /\ \E k \in 1..Len(sent) : sent[k].Depth = MaxDepth

\* the host name of the seed, "x"
SeedHost == <<"x">>

OnSeedHost(urlStr) == ~Parse(urlStr).err /\ Hostname(Parse(urlStr)) = SeedHost

\* C6: no request is issued and no CrawlResult sent for a URL whose host
\* name is not the base URL's, or that does not parse.
C6_InScopeOnly == \A u \in DOMAIN fetched \cup SentURLs : OnSeedHost(u)

\* the link to the other host was discovered, passed the gate and was
\* given up for its scope, while the page it was found on was fetched
C6_Witness ==
    /\ \E a \in abandoned : a.why = "scope" /\ Hostname(Parse(a.url)) = <<"y">>
    /\ Count(fetched, BaseStr) = 1

\* C7 as claimed: a goroutine at the offer of a discovered URL can always
\* take its step; if the frontier has room the URL is queued, and if it is
\* full the frontier is left as it is and no goroutine is started.
OfferStep(i) ==
    /\ i \in 1..Len(tasks) /\ tasks[i].pc = "offer"
    /\ tasks' # tasks \/ panicked' # panicked
    /\ i > Len(tasks') \/ tasks'[i] # tasks[i] \/ panicked' # panicked

Live(ts) == Cardinality({j \in 1..Len(ts) : ts[j] # Done})

OfferNeverBlocks ==
    \A i \in 1..Len(tasks) : (Alive /\ tasks[i].pc = "offer") => ENABLED ProcessStep(i)

OfferEffect(i) ==
    IF Len(queue) < QueueCap
    THEN queue' = Append(queue, Head(tasks[i].todo))
    ELSE /\ queue' = queue
         /\ Live(tasks') <= Live(tasks)
         /\ panicked' = panicked

C7_OfferQueuesOrDrops ==
    /\ []OfferNeverBlocks
    /\ [][\A i \in TaskIds : OfferStep(i) => OfferEffect(i)]_vars

\* C7 amended: the same, the effect being claimed while the cancellation
\* signal has not fired; once it has fired the goroutine may return instead
\* of offering.
C7_OfferQueuesOrDropsUnlessCancelled ==
    /\ []OfferNeverBlocks
    /\ [][\A i \in TaskIds : (OfferStep(i) /\ ~cancelled) => OfferEffect(i)]_vars

\* a URL was dropped at the full frontier and the run went on to queue
\* another one
C7_Witness ==
    /\ \E a \in abandoned : a.why = "full"
    /\ Len(queue) = QueueCap
    /\ ~cancelled

\* C8: once the cancellation signal has fired, with the consumer draining
\* the stream, the program does not come to rest (no goroutine and no
\* consumer can take a step) before every pool worker has exited and the
\* stream is closed.  Stated for runs in which Stop() is called at most
\* once.
C8_NoRestBeforeClosed ==
    (started /\ cancelled /\ stopCalls <= 1 /\ ~ENABLED Prog)
        => (wg = 0 /\ resultsClosed)

\* C9: a second Stop() after the first has returned completes without a
\* failure.
C9_SecondStopCompletes == stopCalls >= 2 => panicked # PanicClose

\* C10: a URL whose fetch returned an error has no CrawlResult, and no
\* request is issued for it after the failed one.
C10_FetchErrorSilent ==
    \A a \in abandoned :
        a.why = "fetch" => ResultsFor(a.url) = 0 /\ Count(fetched, a.url) <= 1

\* a request was issued and failed, the same URL was presented again and
\* absorbed by the gate, and the run had produced a result for another URL
C10_Witness ==
    /\ \E a, b \in abandoned :
          /\ a.why = "fetch" /\ Count(fetched, a.url) = 1
          /\ b.why = "visited" /\ b.url = a.url
    /\ sent # <<>>

\* a response whose links are extracted
Extractable(urlStr) ==
    /\ Site(urlStr).status = 200
    /\ getContentType(Site(urlStr).ctype) \in {"html", "css", "javascript"}

\* the URLs for which a site serves a page
Pages == {BaseStr, PageA, PageB}

\* per site and page, the normalized links of the body served, computed
\* once
LinksAt ==
    [s \in SiteIds |->
        [u \in Pages |->
            LET l == ExtractURLs(SiteAt(s, u).refs) IN {l[k] : k \in 1..Len(l)}]]

\* the normalized links of the body served for urlStr, whatever its status
\* and kind
Links(urlStr) == IF urlStr \in Pages THEN LinksAt[site][urlStr] ELSE {}

\* the URLs discovered on the page of urlStr
Children(urlStr) == IF Extractable(urlStr) THEN Links(urlStr) ELSE {}

\* the URLs discovered, directly or transitively, from the pages of us
RECURSIVE DiscoveredFrom(_)
DiscoveredFrom(us) ==
    LET more == us \cup UNION {Children(u) : u \in us} IN
    IF more = us THEN us ELSE DiscoveredFrom(more)

\* v is a descendant of u; two pages that lead to each other are not
\* ordered
Descendant(u, v) ==
    /\ v \in DiscoveredFrom(Children(u))
    /\ u \notin DiscoveredFrom(Children(v))

\* C11: of two CrawlResults sent, the second one's URL a descendant of the
\* first one's, the ancestor's depth is at most the descendant's.
C11_AncestorNotDeeper ==
    \A j, k \in 1..Len(sent) :
        Descendant(sent[j].URL, sent[k].URL) => sent[j].Depth <= sent[k].Depth

\* C12: against a chain of more than maxRedirects redirects, Do has
\* followed exactly maxRedirects redirects when it returns, and it returns
\* the response number maxRedirects + 1.
C12_FollowsMaxRedirects ==
    (retres # 0 /\ chain > MaxRedirects)
        => (reqs - 1 = MaxRedirects /\ retres = MaxRedirects + 1)

\* C13: a result of normalizeURL that is not empty has no fragment, and
\* normalizeURL applied to it gives it back.
C13_IdempotentFragmentFree ==
    (normalized # <<>> /\ normalized[1] # <<>>) =>
        /\ Index(normalized[1], "#") = 0
        /\ Len(normalized) = 2 => normalized[2] = normalized[1]

\* a relative reference with a fragment was normalized to an absolute URL,
\* and that one normalized again
C13_Witness ==
    /\ Len(normalized) = 2
    /\ normalized[1] # <<>>
    /\ Index(raw, "#") > 1
    /\ ~IsAbs(Parse(raw))
    /\ HasPrefix(normalized[1], BaseStr)

\* the goroutine i leaves its call of Client.Get
GetStep(i) ==
    /\ i \in 1..Len(tasks) /\ tasks[i].pc = "get"
    /\ i > Len(tasks') \/ tasks'[i] # tasks[i]

\* C14: once the context is done no request is issued, and a call of
\* Client.Get that ends after that has returned an error: processURL
\* returns, the URL is given up and no CrawlResult is sent.
C14_NoRequestOnceCancelled ==
    [][cancelled =>
          /\ fetched' = fetched
          /\ \A i \in TaskIds : GetStep(i) =>
                /\ tasks' = Returned(i)
                /\ Abandon(tasks[i], "fetch") \in abandoned'
                /\ sent' = sent]_vars

\* the context is done, a request had been issued before, and the fetch
\* of a discovered URL has returned an error without a request
C14_Witness ==
    /\ cancelled
    /\ Count(fetched, BaseStr) = 1
    /\ \E a \in abandoned :
          a.why = "fetch" /\ a.url # BaseStr /\ Count(fetched, a.url) = 0

\* C15: the seed's CrawlResult has depth 0, and the CrawlResult of any
\* other URL has the depth of a page it was discovered on, plus one.
C15_DepthIsParentPlusOne ==
    \A k \in 1..Len(sent) :
        IF sent[k].URL = BaseStr THEN sent[k].Depth = 0
        ELSE \E j \in 1..Len(sent) :
                /\ sent[k].URL \in Children(sent[j].URL)
                /\ sent[k].Depth = sent[j].Depth + 1

\* C16: the empty URL string is never in the frontier, never in the
\* visited set and never the URL of a goroutine's processURL.
C16_EmptyLinkSkipped ==
    /\ \A k \in 1..Len(queue) : queue[k] # <<>>
    /\ <<>> \notin visited
    /\ \A i \in 1..Len(tasks) : Processing(i) => tasks[i].url # <<>>

\* the URL came from the body of an extractable response already emitted
Extracted(urlStr) ==
    \E k \in 1..Len(sent) : Extractable(sent[k].URL) /\ urlStr \in Links(sent[k].URL)

C18_NoSendOnClosedFrontier == panicked # PanicSendQueue

\* C19: in the stream, the CrawlResult of a URL other than the seed comes
\* after the CrawlResult of a page whose extracted links include it; and a
\* goroutine that offers the links of a page has sent the page's result,
\* so has every URL in the frontier or in a spawned goroutine its page's.
C19_ResultBeforeLinks ==
    /\ \A k \in 1..Len(sent) :
          sent[k].URL # BaseStr =>
              \E j \in 1..(k - 1) : sent[k].URL \in Children(sent[j].URL)
    /\ \A i \in 1..Len(tasks) :
          /\ tasks[i].pc = "offer" => tasks[i].url \in SentURLs
          /\ (Processing(i) /\ ~tasks[i].pool) =>
                \E j \in 1..Len(sent) : tasks[i].url \in Children(sent[j].URL)
    /\ \A k \in 1..Len(queue) :
          queue[k] # BaseStr =>
              \E j \in 1..Len(sent) : queue[k] \in Children(sent[j].URL)

\* the results of a page and of a link found on it are in the stream, and
\* the link's page is itself offering its links
C19_Witness ==
    /\ Len(sent) >= 2
    /\ sent[1].URL = BaseStr
    /\ sent[2].URL \in Children(BaseStr)
    /\ \E i \in 1..Len(tasks) : tasks[i].pc = "offer" /\ tasks[i].url = sent[2].URL

\* C20: two runs on the same site with the same configuration, both
\* without cancellation, fetch error or frontier overflow, have emitted
\* the same set of (URL, depth) pairs when they have come to rest.
C20_SameOutcome ==
    (prior.ran /\ ~prior.overflowed /\ AtRest /\ ~Overflowed)
        => Outcome = prior.emitted

====
